---- MODULE Spec2Model ----
(***************************************************************************)
(* A model of the Todo-List program: the in-memory task store              *)
(* (todo.py, ToDoManager), its JSON persistence (load_from_file,           *)
(* save_to_file) and the command-line process that wraps it (main.py).     *)
(*                                                                         *)
(* Python objects are modelled with an explicit heap: a Task is an object  *)
(* with an identity (a reference), self._tasks is a list of references,    *)
(* and a list returned by list_tasks is another list of references to the  *)
(* same objects.  Strings are sequences of one-character strings, so that  *)
(* str.strip() is computed, not assumed.  Time is counted in ticks, of     *)
(* which TicksPerSecond make one second, so that isoformat(timespec=       *)
(* "seconds") loses the sub-second part.                                   *)
(***************************************************************************)
EXTENDS Integers, Sequences, FiniteSets, TLC

VARIABLES
    heap,       \* the Task objects alive: reference -> [id, title, done, created_at]
    _tasks,     \* ToDoManager._tasks: a list of references into heap
    _next_id,   \* ToDoManager._next_id
    clock,      \* what datetime.now() returns, in ticks
    result,     \* the list a caller holds after list_tasks (references)
    file,       \* the content of the destination path
    tmp,        \* the content of the path's ".tmp" sibling
    save_pc,    \* the position inside save_to_file ("none" outside of it)
    data,       \* save_to_file's local variable data
    main_pc,    \* the position inside main() ("lib": the store is used as a library)
    cmd,        \* main's parsed command line (args)
    events,     \* history: the events of the current process run, in order
    reported,   \* history: the exception main's except clause printed, if any
    runs,       \* history: the number of process runs started
    assigned,   \* history: the ids add_task assigned since the store was made or loaded
    last        \* history: the last store operation and how it ended

vars == <<heap, _tasks, _next_id, clock, result, file, tmp, save_pc, data,
          main_pc, cmd, events, reported, runs, assigned, last>>

(***************************************************************************)
(* Bounds of the model.                                                    *)
(***************************************************************************)
MaxId == 3
MaxTitleLen == 2
MaxIdsLen == 2
MaxClock == 1
TicksPerSecond == 2
MaxRuns == 4
MaxFileTasks == 2
MaxFileId == 2

(***************************************************************************)
(* Generic helpers.                                                        *)
(***************************************************************************)
Range(s) == {s[i] : i \in DOMAIN s}

SeqsUpTo(S, n) == UNION {[1..k -> S] : k \in 0..n}

RECURSIVE SelectRefs(_, _, _)
\* [r for r in s if Keep(h[r])], Keep given as the set of references to keep
SelectRefs(s, keep, acc) ==
    IF s = <<>> THEN acc
    ELSE SelectRefs(Tail(s), keep,
                    IF Head(s) \in keep THEN Append(acc, Head(s)) ELSE acc)

Min(S) == CHOOSE x \in S : \A y \in S : x <= y

(***************************************************************************)
(* Strings: titles are sequences over Chars; " " is the whitespace.        *)
(***************************************************************************)
Chars == {" ", "a"}
TitleInputs == SeqsUpTo(Chars, MaxTitleLen)

RECURSIVE lstrip(_)
lstrip(s) == IF s # <<>> /\ Head(s) = " " THEN lstrip(Tail(s)) ELSE s

RECURSIVE rstrip(_)
rstrip(s) == IF s # <<>> /\ s[Len(s)] = " "
             THEN rstrip(SubSeq(s, 1, Len(s) - 1)) ELSE s

strip(s) == rstrip(lstrip(s))

(***************************************************************************)
(* The manager as a value: what the methods read and write.                *)
(***************************************************************************)
Manager(h, ts, n) == [heap |-> h, tasks |-> ts, next_id |-> n]

M == Manager(heap, _tasks, _next_id)

\* ToDoManager.__init__
NewManager == Manager(<<>>, <<>>, 1)

\* The Task objects of the store, in store order, as values.
TasksOf(m) == [i \in DOMAIN m.tasks |-> m.heap[m.tasks[i]]]

Tasks == TasksOf(M)

Ids == [i \in DOMAIN _tasks |-> heap[_tasks[i]].id]

\* Object allocation: a reference not in use (heap holds every live object).
NewRef(h) == Min({r \in 1..(Cardinality(DOMAIN h) + 1) : r \notin DOMAIN h})

\* Reference counting: objects nobody refers to are freed.
Collect(h, roots) == [r \in DOMAIN h \cap roots |-> h[r]]

\* Task(id=..., title=...): done defaults to False, created_at to now().
Task(id, title, now) ==
    [id |-> id, title |-> title, done |-> FALSE, created_at |-> now]

\* The outcome of a method: the manager after it, the exception it raised
\* ("none" when it returned) and the value it returned.
Outcome(m, err, ret) == [m |-> m, err |-> err, ret |-> ret]

NoRet == <<>>

(***************************************************************************)
(* ToDoManager's operations, as functions of the manager.                  *)
(***************************************************************************)
\* add_task numbering the new task by its position (ruled out by C1)
add_taskReuse(m, title, now) ==
    LET t == strip(title) IN
    IF t = <<>> THEN Outcome(m, "ValueError", NoRet)
    ELSE LET r == NewRef(m.heap) IN
         Outcome(Manager(m.heap @@ (r :> Task(Len(m.tasks) + 1, t, now)),
                         Append(m.tasks, r), m.next_id + 1),
                 "none", r)

\* add_task appending before it validates the title (ruled out by C3)
add_taskNoCheck(m, title, now) ==
    LET t == strip(title)
        r == NewRef(m.heap) IN
    Outcome(Manager(m.heap @@ (r :> Task(m.next_id, t, now)),
                    Append(m.tasks, r), m.next_id + 1),
            IF t = <<>> THEN "ValueError" ELSE "none", r)

add_task(m, title, now) ==
    LET t == strip(title) IN
    IF t = <<>> THEN Outcome(m, "ValueError", NoRet)
    ELSE LET r == NewRef(m.heap) IN
         Outcome(Manager(m.heap @@ (r :> Task(m.next_id, t, now)),
                         Append(m.tasks, r), m.next_id + 1),
                 "none", r)

list_tasks(m, show_done) ==
    IF show_done THEN m.tasks
    ELSE SelectRefs(m.tasks, {r \in DOMAIN m.heap : ~m.heap[r].done}, <<>>)

\* next((t for t in self._tasks if t.id == task_id), None)
get(m, task_id) ==
    LET hits == {i \in DOMAIN m.tasks : m.heap[m.tasks[i]].id = task_id} IN
    IF hits = {} THEN Outcome(m, "KeyError", NoRet)
    ELSE Outcome(m, "none", m.tasks[Min(hits)])

complete_task(m, task_id, done) ==
    LET g == get(m, task_id) IN
    IF g.err # "none" THEN g
    ELSE Outcome(Manager([m.heap EXCEPT ![g.ret].done = done],
                         m.tasks, m.next_id),
                 "none", g.ret)

rename_task(m, task_id, new_title) ==
    LET t == strip(new_title) IN
    IF t = <<>> THEN Outcome(m, "ValueError", NoRet)
    ELSE LET g == get(m, task_id) IN
         IF g.err # "none" THEN g
         ELSE Outcome(Manager([m.heap EXCEPT ![g.ret].title = t],
                              m.tasks, m.next_id),
                      "none", g.ret)

\* {t.id: t for t in self._tasks}: a later task with the same id replaces
\* an earlier one.
id_to_task(m) ==
    [i \in {m.heap[r].id : r \in Range(m.tasks)} |->
        m.tasks[CHOOSE k \in DOMAIN m.tasks :
                  /\ m.heap[m.tasks[k]].id = i
                  /\ \A j \in DOMAIN m.tasks :
                        m.heap[m.tasks[j]].id = i => j <= k]]

RECURSIVE mentioned(_, _, _, _)
\* the first loop of reorder: st = [new_order, seen]
mentioned(d, ids, new_order, seen) ==
    IF ids = <<>> THEN [new_order |-> new_order, seen |-> seen]
    ELSE LET i == Head(ids) IN
         IF i \in DOMAIN d /\ i \notin seen
         THEN mentioned(d, Tail(ids), Append(new_order, d[i]), seen \cup {i})
         ELSE mentioned(d, Tail(ids), new_order, seen)

\* reorder putting the tasks that are not mentioned first (ruled out by C10)
reorderSwap(m, ids_in_order) ==
    LET d == id_to_task(m)
        first == mentioned(d, ids_in_order, <<>>, {})
        rest == SelectRefs(m.tasks,
                           {r \in DOMAIN m.heap : m.heap[r].id \notin first.seen},
                           <<>>) IN
    Outcome(Manager(m.heap, rest \o first.new_order, m.next_id), "none", NoRet)

reorder(m, ids_in_order) ==
    LET d == id_to_task(m)
        first == mentioned(d, ids_in_order, <<>>, {})
        rest == SelectRefs(m.tasks,
                           {r \in DOMAIN m.heap : m.heap[r].id \notin first.seen},
                           <<>>) IN
    Outcome(Manager(m.heap, first.new_order \o rest, m.next_id), "none", NoRet)

delete_task(m, task_id) ==
    LET g == get(m, task_id) IN
    IF g.err # "none" THEN g
    ELSE Outcome(Manager(m.heap,
                         SelectRefs(m.tasks,
                                    {r \in DOMAIN m.heap : m.heap[r].id # task_id},
                                    <<>>),
                         m.next_id),
                 "none", g.ret)

clear_completed(m) ==
    LET kept == SelectRefs(m.tasks, {r \in DOMAIN m.heap : ~m.heap[r].done}, <<>>) IN
    Outcome(Manager(m.heap, kept, m.next_id), "none", Len(m.tasks) - Len(kept))

(***************************************************************************)
(* JSON values.  A field of a JSON object is Missing, Has(x), or Bad: a    *)
(* value of a type the reader cannot convert (int("x"), iterating null,    *)
(* fromisoformat("junk")).  A file is absent, not JSON at all (also: empty *)
(* or cut short), a JSON array, or a JSON object.                          *)
(***************************************************************************)
Missing == [missing |-> TRUE]
Bad == [bad |-> TRUE]
Has(x) == [v |-> x]

Absent == [kind |-> "absent"]
NotJson == [kind |-> "invalid"]
JsonArray == [kind |-> "array"]
JsonObject(d) == [kind |-> "object", store |-> d]

\* A task entry that is not a JSON object (a number, a string, a list).
NotADict == [kind |-> "other"]

\* datetime.isoformat(timespec="seconds"): the text names the second.
isoformat(t) == t \div TicksPerSecond

\* datetime.fromisoformat of such a text: the start of that second.
fromisoformat(s) == s * TicksPerSecond

\* to_dict without the done flag (ruled out by C5)
to_dictNoDone(t) ==
    [kind |-> "dict", id |-> Has(t.id), title |-> Has(t.title),
     done |-> Missing, created_at |-> Has(isoformat(t.created_at))]

to_dict(t) ==
    [kind |-> "dict", id |-> Has(t.id), title |-> Has(t.title),
     done |-> Has(t.done), created_at |-> Has(isoformat(t.created_at))]

\* Task.from_dict: [err, task].  An unparsable or absent created_at becomes
\* now(); a missing or unconvertible id, a missing title, or an entry that
\* is no dict raises.  (str() and bool() convert a title or a done of any
\* JSON type, so those never raise; the files here hold titles and flags
\* of the right type.)
from_dict(d, now) ==
    IF d.kind # "dict" THEN [err |-> "AttributeError"]
    ELSE LET dt == IF d.created_at \in {Missing, Bad} THEN now
                   ELSE fromisoformat(d.created_at.v) IN
         IF d.id = Missing THEN [err |-> "KeyError"]
         ELSE IF d.id = Bad THEN [err |-> "ValueError"]
         ELSE IF d.title = Missing THEN [err |-> "KeyError"]
         ELSE [err |-> "none",
               task |-> [id |-> d.id.v, title |-> d.title.v,
                         done |-> IF d.done = Missing THEN FALSE ELSE d.done.v,
                         created_at |-> dt]]

_to_store(m) ==
    [next_id |-> Has(m.next_id),
     tasks |-> Has([i \in DOMAIN m.tasks |-> to_dict(m.heap[m.tasks[i]])])]

RECURSIVE build_tasks(_, _, _, _)
\* [Task.from_dict(rt) for rt in raw_tasks]: new objects, in h; the first
\* entry that raises ends it.
build_tasks(raw, now, h, acc) ==
    IF raw = <<>> THEN [err |-> "none", heap |-> h, tasks |-> acc]
    ELSE LET t == from_dict(Head(raw), now) IN
         IF t.err # "none" THEN [err |-> t.err, heap |-> h, tasks |-> acc]
         ELSE LET r == NewRef(h) IN
              build_tasks(Tail(raw), now, h @@ (r :> t.task), Append(acc, r))

\* ToDoManager._from_store: _next_id is assigned before the tasks are read,
\* so an exception while reading them leaves the manager half updated.
_from_store(m, store, now) ==
    IF store.next_id = Bad THEN Outcome(m, "ValueError", NoRet)
    ELSE LET n == IF store.next_id = Missing THEN 1 ELSE store.next_id.v
             half == Manager(m.heap, m.tasks, n) IN
         IF store.tasks = Bad THEN Outcome(half, "TypeError", NoRet)
         ELSE LET raw == IF store.tasks = Missing THEN <<>> ELSE store.tasks.v
                  b == build_tasks(raw, now, m.heap, <<>>) IN
              IF b.err # "none" THEN Outcome(half, b.err, NoRet)
              ELSE Outcome(Manager(b.heap, b.tasks, n), "none", NoRet)

\* an except clause that swallows the error and resets nothing (ruled out
\* by C6)
start_freshKeep(m) == m

\* the except clause of load_from_file

start_fresh(m) == Manager(m.heap, <<>>, 1)

\* ToDoManager.load_from_file: never raises.
load_from_file(m, f, now) ==
    IF f = Absent THEN Outcome(Manager(m.heap, <<>>, 1), "none", NoRet)
    ELSE IF f.kind # "object" THEN Outcome(start_fresh(m), "none", NoRet)
    ELSE LET r == _from_store(m, f.store, now) IN
         IF r.err # "none" THEN Outcome(start_fresh(r.m), "none", NoRet)
         ELSE r

(***************************************************************************)
(* The state after construction, and the steps.  Every step records in     *)
(* last the call it made: its name, its arguments, the exception raised.   *)
(***************************************************************************)
NoData == [kind |-> "nodata"]
NoCmd == [name |-> "nocmd"]
NoArg == [none |-> TRUE]
Op(name, arg, err) == [op |-> name, arg |-> arg, err |-> err]

InitStore ==
    /\ heap = <<>>
    /\ _tasks = <<>>
    /\ _next_id = 1
    /\ clock = 0
    /\ result = <<>>
    /\ tmp = Absent
    /\ save_pc = "none"
    /\ data = NoData
    /\ cmd = NoCmd
    /\ events = <<>>
    /\ reported = "none"
    /\ runs = 0
    /\ assigned = <<>>
    /\ last = Op("init", NoArg, "none")

Init ==
    /\ InitStore
    /\ file = Absent
    /\ main_pc = "lib"

\* The caller is between two calls on the manager.
Idle == main_pc = "lib" /\ save_pc = "none"

\* datetime.now() never runs backwards: a call reads the clock at or after
\* the last reading.
Times == clock..MaxClock

\* The manager becomes out.m; objects no list refers to any more are freed.
Becomes(out, res) ==
    /\ heap' = Collect(out.m.heap, Range(out.m.tasks) \cup Range(res))
    /\ _tasks' = out.m.tasks
    /\ _next_id' = out.m.next_id
    /\ result' = res

Disk == <<file, tmp, save_pc, data>>
Process == <<main_pc, cmd, events, reported, runs>>

\* the ids add_task has assigned, this call included
Assigned(out) ==
    IF out.err = "none" THEN Append(assigned, out.m.heap[out.ret].id)
    ELSE assigned

AddTask(title, now) ==
    /\ Idle
    /\ _next_id <= MaxId
    /\ Len(_tasks) < MaxId
    /\ LET out == add_task(M, title, now) IN
       /\ Becomes(out, result)
       /\ last' = Op("add", [title |-> title], out.err)
       /\ assigned' = Assigned(out)
    /\ clock' = now
    /\ UNCHANGED <<Disk, Process>>

Get(task_id) ==
    /\ Idle
    /\ LET out == get(M, task_id) IN
       /\ Becomes(out, result)
       /\ last' = Op("get", [id |-> task_id], out.err)
    /\ UNCHANGED <<clock, Disk, Process, assigned>>

CompleteTask(task_id, done) ==
    /\ Idle
    /\ LET out == complete_task(M, task_id, done) IN
       /\ Becomes(out, result)
       /\ last' = Op("complete", [id |-> task_id, done |-> done], out.err)
    /\ UNCHANGED <<clock, Disk, Process, assigned>>

RenameTask(task_id, new_title) ==
    /\ Idle
    /\ LET out == rename_task(M, task_id, new_title) IN
       /\ Becomes(out, result)
       /\ last' = Op("rename", [id |-> task_id, title |-> new_title], out.err)
    /\ UNCHANGED <<clock, Disk, Process, assigned>>

Reorder(ids_in_order) ==
    /\ Idle
    /\ LET out == reorder(M, ids_in_order) IN
       /\ Becomes(out, result)
       /\ last' = Op("reorder", [ids |-> ids_in_order], out.err)
    /\ UNCHANGED <<clock, Disk, Process, assigned>>

DeleteTask(task_id) ==
    /\ Idle
    /\ LET out == delete_task(M, task_id) IN
       /\ Becomes(out, result)
       /\ last' = Op("delete", [id |-> task_id], out.err)
    /\ UNCHANGED <<clock, Disk, Process, assigned>>

ClearCompleted ==
    /\ Idle
    /\ LET out == clear_completed(M) IN
       /\ Becomes(out, result)
       /\ last' = Op("clear", NoArg, out.err)
    /\ UNCHANGED <<clock, Disk, Process, assigned>>

\* The arguments the callers pass.
IdInputs == 1..MaxId
IdListInputs == SeqsUpTo(IdInputs, MaxIdsLen)

StoreOps ==
    \/ \E title \in TitleInputs, now \in Times : AddTask(title, now)
    \/ \E i \in IdInputs : Get(i)
    \/ \E i \in IdInputs, d \in BOOLEAN : CompleteTask(i, d)
    \/ \E i \in IdInputs, title \in TitleInputs : RenameTask(i, title)
    \/ \E ids \in IdListInputs : Reorder(ids)
    \/ \E i \in IdInputs : DeleteTask(i)
    \/ ClearCompleted

Next == StoreOps

\* The manager used as a library, from the empty store.
Spec == Init /\ [][Next]_vars

(***************************************************************************)
(* A caller that keeps the list list_tasks returned and changes it.        *)
(***************************************************************************)
ListTasks(show_done) ==
    /\ Idle
    /\ Becomes(Outcome(M, "none", NoRet), list_tasks(M, show_done))
    /\ last' = Op("list", [show_done |-> show_done], "none")
    /\ UNCHANGED <<clock, Disk, Process, assigned>>

\* items[i].done = done: Task is a plain (not frozen) dataclass
ResultSetDone(i, done) ==
    /\ Idle
    /\ i \in DOMAIN result
    /\ heap' = [heap EXCEPT ![result[i]].done = done]
    /\ last' = Op("result_set_done", [i |-> i, done |-> done], "none")
    /\ UNCHANGED <<_tasks, _next_id, result, clock, Disk, Process, assigned>>

\* del items[i]
ResultRemove(i) ==
    /\ Idle
    /\ i \in DOMAIN result
    /\ LET res == [k \in 1..(Len(result) - 1) |->
                      IF k < i THEN result[k] ELSE result[k + 1]] IN
       Becomes(Outcome(M, "none", NoRet), res)
    /\ last' = Op("result_remove", [i |-> i], "none")
    /\ UNCHANGED <<clock, Disk, Process, assigned>>

NextList ==
    \/ \E title \in TitleInputs, now \in Times : AddTask(title, now)
    \/ \E i \in IdInputs, d \in BOOLEAN : CompleteTask(i, d)
    \/ \E i \in IdInputs : DeleteTask(i)
    \/ \E b \in BOOLEAN : ListTasks(b)
    \/ \E i \in 1..MaxId, d \in BOOLEAN : ResultSetDone(i, d)
    \/ \E i \in 1..MaxId : ResultRemove(i)

SpecList == Init /\ [][NextList]_vars

(***************************************************************************)
(* save_to_file, step by step.  The two paths are the disk: dsk.file is    *)
(* the destination, dsk.tmp its ".tmp" sibling in the same directory.      *)
(***************************************************************************)
TheDisk == [file |-> file, tmp |-> tmp]

\* json.dumps(data, ...) of the dict _to_store returns
json_dumps(d) == JsonObject(d)

\* write_text on the destination itself (ruled out by C7)
open_for_writeInPlace(dsk) == [dsk EXCEPT !.file = NotJson]

\* tmp.write_text, first half: open(tmp, "w") creates or empties the file

open_for_write(dsk) == [dsk EXCEPT !.tmp = NotJson]

\* tmp.write_text, second half: the text is written and the file closed
write_text(dsk, text) == [dsk EXCEPT !.tmp = text]

\* tmp.replace(path): the destination becomes the temporary file
replace(dsk) == [file |-> dsk.tmp, tmp |-> Absent]

\* where main goes when save_to_file is over (returned or raised)
AfterSave == IF main_pc = "saving" THEN "exit" ELSE main_pc

\* lines 153-155: mkdir, the tmp path, data = self._to_store()
SaveEnter ==
    /\ save_pc = "none"
    /\ save_pc' = "open"
    /\ data' = json_dumps(_to_store(M))
    /\ last' = Op("saving", [at |-> "open"], "none")
    /\ UNCHANGED <<heap, _tasks, _next_id, result, clock, file, tmp, assigned>>

SaveBegin ==
    /\ main_pc = "lib"
    /\ SaveEnter
    /\ UNCHANGED Process

SaveOpenTmp ==
    /\ save_pc = "open"
    /\ save_pc' = "write"
    /\ LET dsk == open_for_write(TheDisk) IN file' = dsk.file /\ tmp' = dsk.tmp
    /\ last' = Op("saving", [at |-> "write"], "none")
    /\ UNCHANGED <<heap, _tasks, _next_id, result, clock, data, Process, assigned>>

SaveWriteTmp ==
    /\ save_pc = "write"
    /\ save_pc' = "replace"
    /\ LET dsk == write_text(TheDisk, data) IN file' = dsk.file /\ tmp' = dsk.tmp
    /\ last' = Op("saving", [at |-> "replace"], "none")
    /\ UNCHANGED <<heap, _tasks, _next_id, result, clock, data, Process, assigned>>

SaveReplace ==
    /\ save_pc = "replace"
    /\ save_pc' = "none"
    /\ LET dsk == replace(TheDisk) IN file' = dsk.file /\ tmp' = dsk.tmp
    /\ data' = NoData
    /\ main_pc' = AfterSave
    /\ last' = Op("save", NoArg, "none")
    /\ UNCHANGED <<heap, _tasks, _next_id, result, clock, cmd, events, reported,
                   runs, assigned>>

\* mkdir, open, write or replace raises (permissions, disk full), or the
\* process is killed there: save_to_file is left where it stands.
SaveFail ==
    /\ save_pc # "none"
    /\ save_pc' = "none"
    /\ data' = NoData
    /\ main_pc' = AfterSave
    /\ last' = Op("save", [at |-> save_pc], "OSError")
    /\ UNCHANGED <<heap, _tasks, _next_id, result, clock, file, tmp, cmd, events,
                   reported, runs, assigned>>

SaveSteps == SaveOpenTmp \/ SaveWriteTmp \/ SaveReplace \/ SaveFail

LoadFromFile(now) ==
    /\ Idle
    /\ LET out == load_from_file(M, file, now) IN
       /\ Becomes(out, result)
       /\ last' = Op("load", NoArg, out.err)
    /\ clock' = now
    /\ assigned' = <<>>
    /\ UNCHANGED <<Disk, Process>>

\* The manager is used, then saved (as often as it takes) and loaded back.
NextPersist ==
    \/ (file = Absent /\ tmp = Absent /\ StoreOps)
    \/ SaveBegin
    \/ SaveSteps
    \/ \E now \in Times : LoadFromFile(now)

SpecPersist == Init /\ [][NextPersist]_vars

(***************************************************************************)
(* A destination that something else wrote: any file, well formed or not.  *)
(***************************************************************************)
Entry(id, title, done, created_at) ==
    [kind |-> "dict", id |-> id, title |-> title, done |-> done,
     created_at |-> created_at]

GoodEntries ==
    {Entry(Has(i), Has(<<"a">>), x[1], x[2]) :
        i \in 1..MaxFileId,
        x \in {<<Has(TRUE), Has(1)>>, <<Missing, Missing>>, <<Has(FALSE), Bad>>}}

\* entries of the wrong shape
BadEntries ==
    {NotADict,
     Entry(Missing, Has(<<"a">>), Has(FALSE), Has(0)),
     Entry(Bad, Has(<<"a">>), Has(FALSE), Has(0)),
     Entry(Has(1), Missing, Has(FALSE), Has(0))}

AnyFiles ==
    {Absent, NotJson, JsonArray} \cup
    {JsonObject([next_id |-> n, tasks |-> ts]) :
        n \in {Missing, Bad, Has(MaxId)},
        ts \in {Missing, Bad} \cup
               {Has(es) : es \in SeqsUpTo(GoodEntries \cup BadEntries, MaxFileTasks)}}

InitLoaded ==
    /\ InitStore
    /\ file \in AnyFiles
    /\ main_pc = "lib"

\* The manager may hold a task of its own when it loads.
NextLoaded ==
    \/ \E now \in Times : LoadFromFile(now)
    \/ \E title \in TitleInputs, now \in Times : _tasks = <<>> /\ AddTask(title, now)
    \/ \E ids \in IdListInputs : Reorder(ids)

\* The manager used as a library on a file it did not write.
SpecLoaded == InitLoaded /\ [][NextLoaded]_vars

(***************************************************************************)
(* The process: main.py.  Each run builds a manager, parses the command    *)
(* line (a run is modelled from a command line argparse accepts), loads,   *)
(* runs the one command, saves and exits; the next run finds the file the  *)
(* last one left.                                                          *)
(***************************************************************************)
\* A comma-separated piece of the reorder argument: digits, or anything
\* else ("-1", "x", "").
Digits(n) == [digits |-> TRUE, v |-> n]
NoDigits == [digits |-> FALSE]
Tokens == {Digits(n) : n \in 0..MaxId} \cup {NoDigits}

\* ids the command line can carry: argparse's type=int takes any integer.
\* (The search command, which only reads the store, is left out.)
CmdIds == (-1)..MaxId

CmdInputs ==
    {[name |-> "add", title |-> t] : t \in TitleInputs} \cup
    {[name |-> "list", pending |-> b] : b \in BOOLEAN} \cup
    {[name |-> n, id |-> i] : n \in {"done", "undone", "delete"}, i \in CmdIds} \cup
    {[name |-> "clear"], [name |-> "stats"]} \cup
    {[name |-> "rename", id |-> i, title |-> t] : i \in CmdIds, t \in TitleInputs} \cup
    {[name |-> "reorder", ids |-> ts] : ts \in SeqsUpTo(Tokens, MaxIdsLen)}

stats(m) ==
    LET total == Len(m.tasks)
        done == Cardinality({i \in DOMAIN m.tasks : m.heap[m.tasks[i]].done})
    IN  [total |-> total, done |-> done, pending |-> total - done]

\* [int(x) for x in args.ids.split(",") if x.strip().isdigit()]
parse_ids(ts) ==
    LET kept == SelectSeq(ts, LAMBDA x : x.digits) IN
    [k \in DOMAIN kept |-> kept[k].v]

\* main.py's handlers
cmd_add(m, args, now) == add_task(m, args.title, now)
cmd_list(m, args) == Outcome(m, "none", list_tasks(m, ~args.pending))
cmd_done(m, args) == complete_task(m, args.id, TRUE)
cmd_undone(m, args) == complete_task(m, args.id, FALSE)
cmd_delete(m, args) == delete_task(m, args.id)
cmd_clear(m, args) == clear_completed(m)
cmd_rename(m, args) == rename_task(m, args.id, args.title)
cmd_stats(m, args) == Outcome(m, "none", stats(m))
cmd_reorder(m, args) == reorder(m, parse_ids(args.ids))

\* args.func(args)
func(m, args, now) ==
    CASE args.name = "add" -> cmd_add(m, args, now)
      [] args.name = "list" -> cmd_list(m, args)
      [] args.name = "done" -> cmd_done(m, args)
      [] args.name = "undone" -> cmd_undone(m, args)
      [] args.name = "delete" -> cmd_delete(m, args)
      [] args.name = "clear" -> cmd_clear(m, args)
      [] args.name = "rename" -> cmd_rename(m, args)
      [] args.name = "stats" -> cmd_stats(m, args)
      [] args.name = "reorder" -> cmd_reorder(m, args)

\* except (KeyError, ValueError) as e: print(f"Error: {e}")
except_clause(err) == IF err \in {"KeyError", "ValueError"} THEN err ELSE "none"

\* a main that saves only when the command returned (ruled out by C8)
after_commandSkip(err) == IF err = "none" THEN "ran" ELSE "exit"

\* try / except / finally: where main goes after the command, given the
\* exception it raised ("none": it returned): to the save, always
after_command(err) == "ran"

InitMain ==
    /\ InitStore
    /\ file = Absent
    /\ main_pc = "exit"

\* a new process: manager = ToDoManager(); args = parser.parse_args()
MainStart(args) ==
    /\ main_pc = "exit"
    /\ runs < MaxRuns
    /\ Becomes(Outcome(NewManager, "none", NoRet), <<>>)
    /\ main_pc' = "parsed"
    /\ cmd' = args
    /\ events' = <<>>
    /\ reported' = "none"
    /\ runs' = runs + 1
    /\ assigned' = <<>>
    /\ last' = Op("start", NoArg, "none")
    /\ UNCHANGED <<clock, Disk>>

MainLoad(now) ==
    /\ main_pc = "parsed"
    /\ LET out == load_from_file(M, file, now) IN
       /\ Becomes(out, <<>>)
       /\ last' = Op("load", NoArg, out.err)
    /\ clock' = now
    /\ main_pc' = "loaded"
    /\ events' = Append(events, "load")
    /\ UNCHANGED <<Disk, cmd, reported, runs, assigned>>

MainRun(now) ==
    /\ main_pc = "loaded"
    /\ LET out == func(M, cmd, now) IN
       /\ Becomes(out, <<>>)
       /\ last' = Op(cmd.name, cmd, out.err)
       /\ reported' = except_clause(out.err)
       /\ main_pc' = after_command(out.err)
       /\ assigned' = IF cmd.name = "add" THEN Assigned(out) ELSE assigned
    /\ clock' = now
    /\ events' = Append(events, "command")
    /\ UNCHANGED <<Disk, cmd, runs>>

\* finally: manager.save_to_file(data_path)
MainSave ==
    /\ main_pc = "ran"
    /\ SaveEnter
    /\ main_pc' = "saving"
    /\ events' = Append(events, "save")
    /\ UNCHANGED <<cmd, reported, runs>>

NextMain ==
    \/ \E args \in CmdInputs : MainStart(args)
    \/ \E now \in Times : MainLoad(now)
    \/ \E now \in Times : MainRun(now)
    \/ MainSave
    \/ SaveSteps

SpecMain == InitMain /\ [][NextMain]_vars

(***************************************************************************)
(* What the claims speak of.                                               *)
(***************************************************************************)
\* empty or whitespace-only
Blank(title) == \A k \in DOMAIN title : title[k] = " "

Present(task_id) == \E i \in DOMAIN _tasks : heap[_tasks[i]].id = task_id

\* this step ends with exception e and the store as it was
FailsWith(e) ==
    /\ last'.err = e
    /\ _tasks' = _tasks
    /\ Tasks' = Tasks
    /\ _next_id' = _next_id

\* First position of x in the sequence s (x occurs in s).
FirstAt(s, x) == Min({k \in DOMAIN s : s[k] = x})

\* new is old reordered as reorder(ids) is specified to: the mentioned
\* tasks by first mention, then the others in their old order; every task
\* kept once, with its fields.
ReorderedBy(old, ids, new) ==
    LET oldIds == [i \in DOMAIN old |-> old[i].id]
        said(x) == x \in Range(ids)
    IN  /\ Len(new) = Len(old)
        /\ \A i \in DOMAIN old : \E j \in DOMAIN new : new[j] = old[i]
        /\ \A p, q \in DOMAIN new :
             p < q =>
               LET a == new[p].id
                   b == new[q].id
               IN  /\ said(a) /\ said(b) => FirstAt(ids, a) < FirstAt(ids, b)
                   /\ ~said(a) => /\ ~said(b)
                                  /\ FirstAt(oldIds, a) < FirstAt(oldIds, b)

(***************************************************************************)
(* C1: in every state reached from the empty store by add, complete,       *)
(* rename, reorder, delete and clear_completed, the ids in the store are   *)
(* pairwise distinct, and the ids add_task assigned so far are strictly    *)
(* increasing, each the previous one plus one, whatever was deleted or     *)
(* cleared in between.                                                     *)
(***************************************************************************)
C1_IdsDistinctAndIncreasing ==
    /\ \A i, j \in DOMAIN _tasks :
          i # j => heap[_tasks[i]].id # heap[_tasks[j]].id
    /\ \A i \in DOMAIN _tasks : heap[_tasks[i]].id \in Range(assigned)
    /\ \A k \in DOMAIN assigned :
          /\ assigned[k] >= 1
          /\ \A j \in 1..(k - 1) : assigned[j] < assigned[k]
          /\ k > 1 => assigned[k] = assigned[k - 1] + 1

\* add, then the task deleted or cleared, then add: the store holds the
\* second task only.
C1_AddDeleteAddWitness ==
    /\ last.op = "add" /\ last.err = "none"
    /\ Len(assigned) = 2
    /\ Len(_tasks) = 1
    /\ heap[_tasks[1]].id = assigned[2]

(***************************************************************************)
(* C3: a store operation that fails leaves the store unchanged: add and    *)
(* rename with a blank title raise ValueError (ValidationError), get,      *)
(* complete, rename (with a valid title) and delete of an id that is not   *)
(* in the store raise KeyError (NotFoundError), and after any step that    *)
(* ends in an exception the task list, the tasks' fields and _next_id are  *)
(* what they were.                                                         *)
(***************************************************************************)
C3_FailedOperationLeavesStoreUnchanged ==
    [][ LET op == last'.op
            arg == last'.arg
        IN  /\ op \in {"add", "rename"} /\ Blank(arg.title)
                 => FailsWith("ValueError")
            /\ op = "rename" /\ ~Blank(arg.title) /\ ~Present(arg.id)
                 => FailsWith("KeyError")
            /\ op \in {"get", "complete", "delete"} /\ ~Present(arg.id)
                 => FailsWith("KeyError")
            /\ last'.err # "none" => FailsWith(last'.err)
      ]_vars

\* a rename with a blank title was refused on a store that holds tasks
C3_FailedRenameWitness ==
    /\ last.op = "rename" /\ last.err = "ValueError"
    /\ Present(last.arg.id)
    /\ Len(_tasks) >= 2

(***************************************************************************)
(* C10: every reorder(ids_in_order) step on a store with distinct ids      *)
(* puts the mentioned tasks first, in the order of the first mention of    *)
(* each id (later duplicates and unknown ids ignored), then the tasks not  *)
(* mentioned in their previous relative order; reorder([3,1]) on the order *)
(* [1,2,3] gives [3,1,2]; no task's id, title, done or created_at changes, *)
(* nor does _next_id.                                                      *)
(***************************************************************************)
C10_ReorderOrder ==
    [][ last'.op = "reorder" =>
          /\ ReorderedBy(Tasks, last'.arg.ids, Tasks')
          /\ _next_id' = _next_id
          /\ (last'.arg.ids = <<3, 1>> /\ Ids = <<1, 2, 3>>) => Ids' = <<3, 1, 2>>
      ]_vars

\* reorder([3,1]) has just put the tasks 1, 2, 3 in the order [3,1,2]
C10_ReorderWitness ==
    /\ last = Op("reorder", [ids |-> <<3, 1>>], "none")
    /\ Ids = <<3, 1, 2>>
    /\ \E i \in DOMAIN _tasks : heap[_tasks[i]].done

(***************************************************************************)
(* C2: reorder is a bijection: whatever the input list and whatever the    *)
(* store holds, a store populated by load included, the task list after a  *)
(* reorder step is a permutation of the task list before it (every task    *)
(* object once, the same number of tasks).                                 *)
(***************************************************************************)
Count(s, x) == Cardinality({k \in DOMAIN s : s[k] = x})

IsPermutation(a, b) ==
    /\ Len(a) = Len(b)
    /\ \A x \in Range(a) \cup Range(b) : Count(a, x) = Count(b, x)

C2_ReorderIsPermutation ==
    [][ last'.op = "reorder" => IsPermutation(_tasks, _tasks') ]_vars

(***************************************************************************)
(* C4: list_tasks returns a snapshot: nothing the caller does to the       *)
(* returned list or to the Task elements in it (setting done, removing an  *)
(* element) changes the store.                                             *)
(***************************************************************************)
C4_ListResultIsSnapshot ==
    [][ last'.op \in {"result_set_done", "result_remove"} =>
          /\ _tasks' = _tasks
          /\ Tasks' = Tasks
          /\ _next_id' = _next_id
      ]_vars

(***************************************************************************)
(* C5: a load that follows a successful save of the same destination       *)
(* gives back the store that was saved: the same tasks in the same order,  *)
(* each with its id, title, done and created_at to the second, and the     *)
(* same _next_id.                                                          *)
(***************************************************************************)
Second(t) == t \div TicksPerSecond

SameToSecond(old, new) ==
    /\ Len(new) = Len(old)
    /\ \A i \in DOMAIN old :
          /\ new[i].id = old[i].id
          /\ new[i].title = old[i].title
          /\ new[i].done = old[i].done
          /\ Second(new[i].created_at) = Second(old[i].created_at)

C5_SaveLoadRoundTrip ==
    [][ (last.op = "save" /\ last.err = "none" /\ last'.op = "load") =>
          /\ last'.err = "none"
          /\ _next_id' = _next_id
          /\ SameToSecond(Tasks, Tasks')
      ]_vars

\* loaded back: two tasks or more, one of them done, ids used up to MaxId
C5_RoundTripWitness ==
    /\ last.op = "load"
    /\ file = json_dumps(_to_store(M))
    /\ Len(_tasks) >= 2
    /\ \E i \in DOMAIN _tasks : heap[_tasks[i]].done
    /\ \E i \in DOMAIN _tasks : ~heap[_tasks[i]].done
    /\ _next_id > Len(_tasks) + 1

(***************************************************************************)
(* C6: load_from_file never raises, and when the file does not exist or    *)
(* is not the expected structure (not JSON, a JSON array, a next_id or a   *)
(* tasks value of the wrong type, a task entry of the wrong shape) the     *)
(* store after the load is empty with _next_id = 1, whatever it held       *)
(* before.                                                                 *)
(***************************************************************************)
WrongShape(e) == e.kind # "dict" \/ e.id \in {Missing, Bad} \/ e.title = Missing

Unloadable(f) ==
    \/ f \in {Absent, NotJson, JsonArray}
    \/ /\ f.kind = "object"
       /\ \/ f.store.next_id = Bad
          \/ f.store.tasks = Bad
          \/ /\ f.store.tasks # Missing
             /\ \E i \in DOMAIN f.store.tasks.v : WrongShape(f.store.tasks.v[i])

C6_LoadNeverRaises ==
    [][ last'.op = "load" =>
          /\ last'.err = "none"
          /\ Unloadable(file) => (_tasks' = <<>> /\ _next_id' = 1)
      ]_vars

\* a file whose first entry is a task and whose second is of the wrong
\* shape has been loaded: nothing of it is kept
C6_CorruptLoadWitness ==
    /\ last.op = "load"
    /\ file.kind = "object"
    /\ file.store.next_id = Has(MaxId)
    /\ file.store.tasks # Missing /\ file.store.tasks # Bad
    /\ Len(file.store.tasks.v) = 2
    /\ ~WrongShape(file.store.tasks.v[1])
    /\ WrongShape(file.store.tasks.v[2])
    /\ _tasks = <<>>
    /\ _next_id = 1

(***************************************************************************)
(* C7: save_to_file writes the whole snapshot to the temporary file and    *)
(* only then replaces the destination: the destination changes in the      *)
(* replace step alone, and then to the complete new snapshot, so at every  *)
(* point of a save, failed or not, it holds the previous snapshot or the   *)
(* new one; only the temporary file is ever empty or half written.         *)
(***************************************************************************)
C7_SaveReplacesAtomically ==
    [][ /\ file' # file =>
             /\ save_pc = "replace"
             /\ tmp = json_dumps(_to_store(M))
             /\ file' = tmp
        /\ file' # NotJson
        /\ tmp' # tmp => save_pc \in {"open", "write", "replace"}
      ]_vars

\* in the middle of a save: the temporary file is cut short, the
\* destination still holds the previous run's snapshot
C7_MidSaveWitness ==
    /\ save_pc = "write"
    /\ tmp = NotJson
    /\ file.kind = "object"
    /\ file # data

(***************************************************************************)
(* C8: in every run of the process the events are load, then one command,  *)
(* then a save attempt, whatever the command's outcome (returned,          *)
(* ValueError, KeyError); what the save writes is the store as the command *)
(* left it.                                                                *)
(***************************************************************************)
C8_LoadCommandSave ==
    /\ main_pc = "parsed" => events = <<>>
    /\ main_pc = "loaded" => events = <<"load">>
    /\ main_pc = "ran" => events = <<"load", "command">>
    /\ main_pc = "saving" =>
          /\ events = <<"load", "command", "save">>
          /\ data = json_dumps(_to_store(M))
    /\ (main_pc = "exit" /\ runs > 0) =>
          /\ events = <<"load", "command", "save">>
          /\ (last.op = "save" /\ last.err = "none") => file = json_dumps(_to_store(M))

\* a run whose command raised KeyError has saved and exited
C8_SavedAfterErrorWitness ==
    /\ main_pc = "exit"
    /\ reported = "KeyError"
    /\ events = <<"load", "command", "save">>
    /\ last.op = "save" /\ last.err = "none"
    /\ Len(_tasks) >= 1

(***************************************************************************)
(* C9: the commands done, undone, delete and rename report an id that is   *)
(* zero or negative as a validation failure (ValueError), not as a         *)
(* not-found error, and leave the store unchanged.                         *)
(***************************************************************************)
C9_NonPositiveIdIsValidationError ==
    [][ ( /\ main_pc = "loaded" /\ main_pc' # "loaded"
          /\ cmd.name \in {"done", "undone", "delete", "rename"}
          /\ cmd.id <= 0 ) =>
          /\ reported' = "ValueError"
          /\ Tasks' = Tasks
          /\ _next_id' = _next_id
      ]_vars

====
